---- MODULE Spec2Model ----
(***************************************************************************)
(* Model of the interaction loop of pyliza's Twitter bot:                  *)
(* TwitterInteractionHandler (src/twitter/twitterInteractions.py) driving  *)
(* TwitterClient (src/twitter/twitterClient.py), a Chroma collection       *)
(* "tweet_responses" and the optional context collaborators.               *)
(*                                                                         *)
(* The handler is single threaded.  One check_mentions invocation is       *)
(* modelled as the action that runs the search, the cursor filter and the  *)
(* sort, followed by one action per iteration of its for loop.  Every      *)
(* collaborator call of an iteration may raise; which one does is the      *)
(* input `fault` of the iteration.                                         *)
(***************************************************************************)
EXTENDS Integers, Sequences, FiniteSets, TLC

\* ------------------------------------------------------------------ bounds
MaxId == 2          \* tweet ids are 1..MaxId
MaxLen == 2         \* longest search result (the code asks for at most 20)
MaxCursor == 1      \* stored cursors are null or 1..MaxCursor
MaxReplies == 2     \* maxReplies arguments are -MaxNegReplies..MaxReplies
MaxNegReplies == 1
MaxCycles == 2      \* check_mentions invocations per behaviour
MaxStored == 1      \* records of earlier sessions are for ids 1..MaxStored
MaxFollowers == 1   \* longest follower list get_followers returns

\* --------------------------------------------------------------- constants
SessionStart == 1   \* the instant start_time = now - 24h, on the model's clock

Ids == 1..MaxId
Times == {SessionStart - 1, SessionStart}
OwnName == "rice"
Users == {OwnName, "alice"}
RepliesArgs == (0 - MaxNegReplies)..MaxReplies

\* Optional[int]: None is <<>>, the integer n is <<n>>.
None == <<>>
Some(n) == <<n>>
Cursors == {None} \cup {Some(n) : n \in 1..MaxCursor}

\* Exceptions are named by their class; every class below derives from
\* Python's Exception.
NoExc == "none"
ExceptionClasses == {"FileNotFoundError", "JSONDecodeError", "AttributeError",
                     "IndexError", "ChromaError", "Exception"}

\* What collection.get does in one loop iteration: it returns (NoExc) or raises
\* an exception of the class named.
Lookups == {NoExc, "FileNotFoundError", "ChromaError"}

\* The collaborator call that raises in one loop iteration, if any.
NoFault == "none"
Faults == {NoFault, "getUserContext", "fetchContext", "response_generator",
           "send_tweet", "updateUserContext", "collection.add"}

\* check_mentions' default for maxReplies.
DefaultMaxReplies == 3

\* The constructions of the handler that the model starts from: with or
\* without a Chroma client, with or without the three context collaborators,
\* and search_terms, reply_targets as given.
Construction(chroma, collaborators, terms, targets) ==
    [chroma_client |-> chroma, getUserContext |-> collaborators,
     fetchContext |-> collaborators, updateUserContext |-> collaborators,
     search_terms |-> terms, reply_targets |-> targets]

SearchTerms == <<"@rice", "rice">>
ReplyTargets == <<[searchTerm |-> "alice", searchContext |-> "friend"],
                  [searchTerm |-> "bob", searchContext |-> "rival"]>>

\* What last_checked_tweet.json may hold: no file at all, text that is not
\* JSON, a JSON value that is not an object (a list, a number), or an object,
\* whose last_checked_tweet_id is `value` (None: the key is missing or null).
AbsentFile == [kind |-> "absent", value |-> None]
ObjectFile(value) == [kind |-> "object", value |-> value]
CursorFiles ==
    {AbsentFile, [kind |-> "invalid", value |-> None],
     [kind |-> "array", value |-> None]}
        \cup {ObjectFile(c) : c \in Cursors}

VARIABLES
    platform,               \* the platform's posts: id -> [created_at, username]
    config,                 \* what __init__ was given
    last_checked_tweet_id,  \* the cursor loaded by __init__
    cursor_file,            \* the content of last_checked_tweet.json
    start_time,             \* the session window start set by __init__
    tweet_responses,        \* ids of the Chroma collection "tweet_responses"
    entry,                  \* the top-level method called last
    active,                 \* that method has not returned yet
    pending,                \* monitor_mentions: search terms still to check
    pc,                     \* "idle", or "loop" inside check_mentions' for loop;
                            \* "new" before __init__, "failed" if it raised
    searches,               \* search_tweets calls since the top-level method
                            \* was entered: [term, context] of each
    noResults,              \* the latest search failed or found nothing
    tweets,                 \* check_mentions: the filtered, sorted candidates
    idx,                    \* check_mentions: position of the for loop in tweets
    nResponses,             \* check_mentions: the reply counter
    maxReplies,             \* check_mentions: the argument
    calls,                  \* collaborator calls of the latest loop iteration
    error,                  \* class of the exception that ended the invocation
    escaped,                \* the methods an exception has propagated out of
    failedOpen,             \* the latest iteration's lookup raised and was caught
    posted,                 \* ids send_tweet returned for, this invocation
    recorded,               \* ids log_response added, this invocation
    sendCalls,              \* id -> number of send_tweet calls replying to it
    lossy,                  \* a post, update, add or fail-open lookup has failed
    eligible,               \* ids passing every filter when the invocation began
    clean,                  \* no collaborator raised in this invocation
    rerun,                  \* same candidates as the preceding clean invocation
    prevPosted,             \* ids the preceding invocation posted to
    prevUncapped,           \* the preceding invocation sent < maxReplies replies
    cycles                  \* check_mentions invocations so far

engine == <<platform, config, last_checked_tweet_id, cursor_file, start_time>>
cycle == <<noResults, tweets, idx, nResponses, maxReplies, calls, error, failedOpen,
           posted, recorded, eligible, clean, rerun, prevPosted, prevUncapped>>
vars == <<engine, tweet_responses, entry, active, pending, pc, searches, cycle,
          escaped, sendCalls, lossy, cycles>>

\* ----------------------------------------------------------------- helpers
Range(s) == {s[k] : k \in 1..Len(s)}

SeqsUpTo(S, n) == UNION {[1..k -> S] : k \in 0..n}

Prefixes(s) == {SubSeq(s, 1, k) : k \in 0..Len(s)}

\* int(tweet['id']): the ids of the model are the integers already.
IntId(tweet_id) == tweet_id

\* (self.last_checked_tweet_id or 0)
CursorOrZero == IF last_checked_tweet_id = None THEN 0 ELSE last_checked_tweet_id[1]

\* except (FileNotFoundError, json.JSONDecodeError) of load_last_checked_tweet_id
LoadCatches(type) == type \in {"FileNotFoundError", "JSONDecodeError"}

\* load_last_checked_tweet_id on the file `file`: open raises FileNotFoundError
\* without a file, json.load raises JSONDecodeError on text that is not JSON,
\* data.get raises AttributeError on a value that is not a dict: [raised, value].
load_last_checked_tweet_id(file) ==
    LET failure == CASE file.kind = "absent" -> "FileNotFoundError"
                     [] file.kind = "invalid" -> "JSONDecodeError"
                     [] file.kind = "array" -> "AttributeError"
                     [] OTHER -> NoExc
    IN IF failure = NoExc THEN [raised |-> NoExc, value |-> file.value]
       ELSE IF LoadCatches(failure) THEN [raised |-> NoExc, value |-> None]
       ELSE [raised |-> failure, value |-> None]

\* save_last_checked_tweet_id: the file after the dump of tweet_id.
save_last_checked_tweet_id(tweet_id) == ObjectFile(Some(tweet_id))

\* The cursor saved after every reply.
SavesCursor_AfterReply(method) == method = "check_mentions"

\* The methods that call save_last_checked_tweet_id or assign
\* self.last_checked_tweet_id: none does.
SavesCursor(method) == FALSE

\* The cursor and its file after `method` has handled tweet_id.
CursorAfter(method, tweet_id) ==
    IF SavesCursor(method)
    THEN [cursor |-> Some(IntId(tweet_id)), file |-> save_last_checked_tweet_id(tweet_id)]
    ELSE [cursor |-> last_checked_tweet_id, file |-> cursor_file]

\* The filter with >= for >.
IsNew_Inclusive(tweet_id) == IntId(tweet_id) >= CursorOrZero

\* The filter of the list comprehension.
IsNew(tweet_id) == IntId(tweet_id) > CursorOrZero

\* sorted(..., key=lambda x: int(x['id'])): ascending, stable.
RECURSIVE Insert(_, _)
Insert(x, s) ==
    IF s = <<>> THEN <<x>>
    ELSE IF IntId(x) < IntId(Head(s)) THEN <<x>> \o s
    ELSE <<Head(s)>> \o Insert(x, Tail(s))

RECURSIVE SortById(_)
SortById(s) ==
    IF s = <<>> THEN <<>>
    ELSE Insert(s[Len(s)], SortById(SubSeq(s, 1, Len(s) - 1)))

\* The filter without the sort.
NewTweets_Unsorted(response) == SelectSeq(response, IsNew)

NewTweets(response) == SortById(SelectSeq(response, IsNew))

\* What the platform answers to one search request: the request fails (a
\* network error, a status other than 200), or it succeeds with the tweets found.
SearchAnswers ==
    {[fails |-> TRUE, found |-> <<>>]}
        \cup {[fails |-> FALSE, found |-> f] : f \in SeqsUpTo(Ids, MaxLen)}

\* A search that answers a failed request with the candidates it found before.
search_tweets_KeepsLast(answer) == IF answer.fails THEN tweets ELSE answer.found

\* TwitterClient.search_tweets: any failure is caught and gives [].
search_tweets(answer) == IF answer.fails THEN <<>> ELSE answer.found

\* The comparison turned round.
BeforeSession_Reversed(tweet_id) == platform[tweet_id].created_at > start_time

\* tweet_created_at < self.start_time
BeforeSession(tweet_id) == platform[tweet_id].created_at < start_time

\* The author compared with the account's display name.
IsOwnTweet_DisplayName(tweet_id) == platform[tweet_id].username = "Rice"

\* tweet['username'] == self.client.username
IsOwnTweet(tweet_id) == platform[tweet_id].username = OwnName

\* has_responded_to_tweet with except Exception.
HasRespondedCatches_Broad(type) == type \in ExceptionClasses

\* except (FileNotFoundError, json.JSONDecodeError) of has_responded_to_tweet
HasRespondedCatches(type) == type \in {"FileNotFoundError", "JSONDecodeError"}

\* A lookup that never finds a record.
has_responded_to_tweet_NeverFound(tweet_id, lookup) ==
    [calls |-> <<"collection.get">>, raised |-> NoExc, value |-> FALSE,
     caught |-> FALSE]

\* has_responded_to_tweet: the calls it makes, the exception it raises, the
\* value it returns, and whether its except clause caught the lookup's failure.
has_responded_to_tweet(tweet_id, lookup) ==
    LET \* client is None: None.get_or_create_collection raises inside the try
        failure == IF config.chroma_client THEN lookup ELSE "AttributeError"
        made == IF config.chroma_client THEN <<"collection.get">>
                ELSE <<"get_or_create_collection">>
    IN IF failure # NoExc
       THEN IF HasRespondedCatches(failure)
            THEN [calls |-> made, raised |-> NoExc, value |-> FALSE, caught |-> TRUE]
            ELSE [calls |-> made, raised |-> failure, value |-> FALSE,
                  caught |-> FALSE]
       ELSE [calls |-> made, raised |-> NoExc,
             value |-> tweet_id \in tweet_responses, caught |-> FALSE]

\* The collaborator calls of one processed candidate, in the order the code
\* makes them (lines 138-163, with generate_response's lines 83-96 inlined).
Configured(call) ==
    CASE call = "getUserContext" -> config.getUserContext
      [] call = "fetchContext" -> config.fetchContext
      [] call = "updateUserContext" -> config.updateUserContext
      [] call = "collection.add" -> config.chroma_client
      [] OTHER -> TRUE

\* The record written before the reply is sent.
Pipeline_AddBeforeSend ==
    SelectSeq(<<"getUserContext", "fetchContext", "response_generator",
                "collection.add", "send_tweet", "updateUserContext">>,
              Configured)

Pipeline ==
    SelectSeq(<<"getUserContext", "fetchContext", "response_generator",
                "send_tweet", "updateUserContext", "collection.add">>,
              Configured)

\* The calls made until the call named `fault` raises: [calls, raised].
RunPipeline(fault) ==
    LET hit == {k \in 1..Len(Pipeline) : Pipeline[k] = fault}
    IN IF hit = {}
       THEN [calls |-> Pipeline, raised |-> NoExc]
       ELSE [calls |-> SubSeq(Pipeline, 1, CHOOSE k \in hit : TRUE),
             raised |-> "Exception"]

\* The break taken one reply later.
LimitReached_Exceeded(n, limit) == n > limit

\* if nResponses >= maxReplies: break
LimitReached(n, limit) == n >= limit

\* A log_response that adds nothing.
log_response_NoAdd(original_tweet_id) == tweet_responses

\* log_response: the collection after the add of original_tweet_id.
log_response(original_tweet_id) ==
    IF config.chroma_client THEN tweet_responses \cup {original_tweet_id}
    ELSE tweet_responses

Made(call, cs) == \E k \in 1..Len(cs) : cs[k] = call

\* `call` was made in the iteration with outcome r and returned.
Returned(call, r) ==
    Made(call, r.calls) /\ ~(r.raised # NoExc /\ r.calls[Len(r.calls)] = call)

\* The try inside the loop: an exception skips to the next candidate.
LoopEnds_ExceptInsideLoop(r, n) ==
    \/ (~r.skipped /\ r.raised = NoExc /\ LimitReached(n, maxReplies))
    \/ idx = Len(tweets)

\* The for loop ends after an iteration: an exception reaches the except
\* clause around the loop, the break is taken, or the list is exhausted.
LoopEnds(r, n) ==
    \/ r.raised # NoExc
    \/ (~r.skipped /\ LimitReached(n, maxReplies))
    \/ idx = Len(tweets)

\* An except clause as narrow as has_responded_to_tweet's.
CheckMentionsCatches_Narrow(type) == type \in {"FileNotFoundError", "JSONDecodeError"}

\* except Exception as e, of check_mentions, monitor_mentions and reply_guy
CheckMentionsCatches(type) == type \in ExceptionClasses
MonitorMentionsCatches(type) == type \in ExceptionClasses
ReplyGuyCatches(type) == type \in ExceptionClasses

\* One iteration of the for loop on tweet_id, up to the break test:
\* [calls, raised, caught, skipped].
ProcessTweet(tweet_id, lookup, fault) ==
    IF BeforeSession(tweet_id) \/ IsOwnTweet(tweet_id)
    THEN [calls |-> <<>>, raised |-> NoExc, caught |-> FALSE, skipped |-> TRUE]
    ELSE LET h == has_responded_to_tweet(tweet_id, lookup)
         IN IF h.raised # NoExc \/ h.value
            THEN [calls |-> h.calls, raised |-> h.raised, caught |-> h.caught,
                  skipped |-> TRUE]
            ELSE LET r == RunPipeline(fault)
                 IN [calls |-> h.calls \o r.calls, raised |-> r.raised,
                     caught |-> h.caught, skipped |-> FALSE]

\* The ids of `ts` that pass every filter against the store as it is.
Eligible(ts) ==
    {t \in Range(ts) :
        /\ ~BeforeSession(t)
        /\ ~IsOwnTweet(t)
        /\ config.chroma_client
        /\ t \notin tweet_responses}

\* -------------------------------------------------------------------- Init
InitRun ==
    /\ start_time = SessionStart
    /\ entry = "none"
    /\ active = FALSE
    /\ pending = 0
    /\ searches = <<>>
    /\ noResults = FALSE
    /\ tweets = <<>>
    /\ idx = 1
    /\ nResponses = 0
    /\ maxReplies = 0
    /\ calls = <<>>
    /\ error = NoExc
    /\ escaped = {}
    /\ failedOpen = FALSE
    /\ posted = <<>>
    /\ recorded = <<>>
    /\ sendCalls = [t \in Ids |-> 0]
    /\ lossy = FALSE
    /\ eligible = {}
    /\ clean = TRUE
    /\ rerun = FALSE
    /\ prevPosted = {}
    /\ prevUncapped = FALSE
    /\ cycles = 0

\* The handler as __init__ leaves it, called through check_mentions only.
Init ==
    /\ platform \in [Ids -> [created_at : Times, username : Users]]
    /\ config \in {Construction(c, o, <<>>, <<>>) : c \in BOOLEAN, o \in BOOLEAN}
    /\ cursor_file \in {AbsentFile} \cup {ObjectFile(Some(n)) : n \in 1..MaxCursor}
    /\ last_checked_tweet_id = load_last_checked_tweet_id(cursor_file).value
    /\ tweet_responses \in SUBSET (1..MaxStored)
    /\ pc = "idle"
    /\ InitRun

\* The handler with every collaborator, as the drivers use it, on a platform
\* whose posts are all recent and written by others.
InitDrivers ==
    /\ platform = [t \in Ids |-> [created_at |-> SessionStart, username |-> "alice"]]
    /\ config \in {Construction(TRUE, TRUE, ts, rs) :
                      ts \in Prefixes(SearchTerms), rs \in Prefixes(ReplyTargets)}
    /\ cursor_file = AbsentFile
    /\ last_checked_tweet_id = load_last_checked_tweet_id(cursor_file).value
    /\ tweet_responses = {}
    /\ pc = "idle"
    /\ InitRun

\* The handler before __init__ runs, with every collaborator, on the platform
\* of InitDrivers and whatever cursor file the working directory holds.
InitLife ==
    /\ platform = [t \in Ids |-> [created_at |-> SessionStart, username |-> "alice"]]
    /\ config = Construction(TRUE, TRUE, SubSeq(SearchTerms, 1, 1),
                             SubSeq(ReplyTargets, 1, 1))
    /\ cursor_file \in CursorFiles
    /\ last_checked_tweet_id = None
    /\ tweet_responses = {}
    /\ pc = "new"
    /\ InitRun

\* ----------------------------------------------------------------- actions
\* __init__, lines 11-22: the cursor is loaded; an exception of the load
\* leaves __init__ and no handler exists.
Construct ==
    /\ pc = "new"
    /\ LET loaded == load_last_checked_tweet_id(cursor_file)
       IN /\ last_checked_tweet_id' = loaded.value
          /\ error' = loaded.raised
          /\ pc' = IF loaded.raised = NoExc THEN "idle" ELSE "failed"
          /\ escaped' = IF loaded.raised = NoExc THEN escaped
                        ELSE escaped \cup {"__init__"}
    /\ start_time' = SessionStart
    /\ entry' = "__init__"
    /\ UNCHANGED <<platform, config, cursor_file, tweet_responses, active, pending,
                   searches, noResults, tweets, idx, nResponses, maxReplies, calls,
                   failedOpen, posted, recorded, eligible, clean, rerun,
                   prevPosted, prevUncapped, sendCalls, lossy, cycles>>

\* check_mentions, lines 98-116: search, filter, sort, enter the loop.
check_mentions(searchTerm, searchContext, answer, limit) ==
    /\ pc = "idle"
    /\ searches' = Append(IF active THEN searches ELSE <<>>,
                          [term |-> searchTerm, context |-> searchContext])
    /\ noResults' = (answer.fails \/ answer.found = <<>>)
    /\ LET search_response == search_tweets(answer)
           ts == IF search_response = <<>> THEN <<>> ELSE NewTweets(search_response)
       IN /\ tweets' = ts
          /\ pc' = IF ts = <<>> THEN "idle" ELSE "loop"
          /\ eligible' = Eligible(ts)
          /\ rerun' = (cycles > 0 /\ clean /\ ts = tweets)
    /\ prevPosted' = Range(posted)
    /\ prevUncapped' = (Len(posted) < maxReplies)
    /\ idx' = 1
    /\ nResponses' = 0
    /\ maxReplies' = limit
    /\ calls' = <<>>
    /\ error' = NoExc
    /\ failedOpen' = FALSE
    /\ posted' = <<>>
    /\ recorded' = <<>>
    /\ clean' = TRUE
    /\ cycles' = cycles + 1
    /\ UNCHANGED <<engine, tweet_responses, escaped, sendCalls, lossy>>

\* A direct call of check_mentions.
CheckMentions(answer, limit) ==
    /\ ~active
    /\ cycles < MaxCycles
    /\ check_mentions(SearchTerms[1], "", answer, limit)
    /\ entry' = "check_mentions"
    /\ active' = (pc' = "loop")
    /\ UNCHANGED pending

\* monitor_mentions, lines 171-176: enter the loop over search_terms.
MonitorMentions ==
    /\ ~active
    /\ pc = "idle"
    /\ cycles + Len(config.search_terms) <= MaxCycles
    /\ entry' = "monitor_mentions"
    /\ pending' = Len(config.search_terms)
    /\ active' = (config.search_terms # <<>>)
    /\ searches' = <<>>
    /\ UNCHANGED <<engine, tweet_responses, pc, cycle, escaped, sendCalls, lossy,
                   cycles>>

\* The search term at the head of the loop's list.
MonitorTerm_Reversed(left) == config.search_terms[left]

\* for searchTerm in self.search_terms: the term met when `left` terms are
\* still to check.
MonitorTerm(left) == config.search_terms[Len(config.search_terms) - left + 1]

\* monitor_mentions, line 177: check_mentions on the next search term.
MonitorNext(answer) ==
    /\ active
    /\ entry = "monitor_mentions"
    /\ pending > 0
    /\ check_mentions(MonitorTerm(pending), "", answer, DefaultMaxReplies)
    /\ pending' = pending - 1
    /\ active' = (pc' = "loop" \/ pending' > 0)
    /\ UNCHANGED entry

\* The search of a reply target without the from: operator.
ReplySearch_NoOperator(reply_target) ==
    [term |-> reply_target.searchTerm, context |-> reply_target.searchContext]

\* reply_search = f"from:{reply_target['searchTerm']}" and
\* searchContext = reply_target["searchContext"]
ReplySearch(reply_target) ==
    [term |-> "from:" \o reply_target.searchTerm,
     context |-> reply_target.searchContext]

\* reply_guy, lines 231-247: nothing without reply targets, else
\* check_mentions on "from:<searchTerm>" of a target chosen at random.
ReplyGuy(answer) ==
    /\ ~active
    /\ pc = "idle"
    /\ entry' = "reply_guy"
    /\ UNCHANGED pending
    /\ IF config.reply_targets = <<>>
       THEN /\ active' = FALSE
            /\ searches' = <<>>
            /\ UNCHANGED <<engine, tweet_responses, pc, cycle, escaped, sendCalls,
                           lossy, cycles>>
       ELSE /\ cycles < MaxCycles
            /\ \E k \in 1..Len(config.reply_targets) :
                  LET search == ReplySearch(config.reply_targets[k])
                  IN check_mentions(search.term, search.context, answer,
                                    DefaultMaxReplies)
            /\ active' = (pc' = "loop")

\* What the platform answers to get_followers: the request fails, or it
\* succeeds with the followers found.
FollowerAnswers ==
    {[fails |-> TRUE, followers |-> <<>>]}
        \cup {[fails |-> FALSE, followers |-> f] :
                 f \in SeqsUpTo({"alice"}, MaxFollowers)}

\* The collaborator call of tweet_to_followers that raises, if any.
FollowerFaults == Faults \ {"collection.add"}

\* The calls of tweet_to_followers after a follower was chosen, lines 213-229.
FollowerCalls ==
    SelectSeq(<<"getUserContext", "fetchContext", "response_generator",
                "send_tweet", "updateUserContext">>,
              Configured)

\* tweet_to_followers in a try/except Exception like its siblings.
TweetToFollowersCatches_Broad(type) == type \in ExceptionClasses

\* tweet_to_followers has no try statement.
TweetToFollowersCatches(type) == FALSE

\* tweet_to_followers, lines 184-229: [calls, raised].  random.choice raises
\* IndexError on an empty list.
tweet_to_followers(answer, fault) ==
    LET hit == {k \in 1..Len(FollowerCalls) : FollowerCalls[k] = fault}
    IN IF answer.fails
       THEN [calls |-> <<"get_followers">>, raised |-> "Exception"]
       ELSE IF answer.followers = <<>>
       THEN [calls |-> <<"get_followers", "random.choice">>, raised |-> "IndexError"]
       ELSE IF hit = {}
       THEN [calls |-> <<"get_followers", "random.choice">> \o FollowerCalls,
             raised |-> NoExc]
       ELSE [calls |-> <<"get_followers", "random.choice">>
                          \o SubSeq(FollowerCalls, 1, CHOOSE k \in hit : TRUE),
             raised |-> "Exception"]

\* A call of tweet_to_followers.
TweetToFollowers(answer, fault) ==
    /\ ~active
    /\ pc = "idle"
    /\ fault # NoFault =>
          (~answer.fails /\ answer.followers # <<>> /\ Made(fault, FollowerCalls))
    /\ LET r == tweet_to_followers(answer, fault)
       IN /\ calls' = r.calls
          /\ error' = r.raised
          /\ escaped' = IF r.raised # NoExc /\ ~TweetToFollowersCatches(r.raised)
                        THEN escaped \cup {"tweet_to_followers"} ELSE escaped
    /\ entry' = "tweet_to_followers"
    /\ active' = FALSE
    /\ searches' = <<>>
    /\ UNCHANGED <<engine, tweet_responses, pending, pc, noResults, tweets, idx,
                   nResponses, maxReplies, failedOpen, posted, recorded, eligible,
                   clean, rerun, prevPosted, prevUncapped, sendCalls, lossy, cycles>>

\* check_mentions, lines 116-169: one iteration of the for loop, and the
\* return to the caller when it is the last one.
Iteration(lookup, fault) ==
    /\ pc = "loop"
    /\ lookup # NoExc => config.chroma_client
    /\ fault # NoFault => Made(fault, Pipeline)
    /\ LET tweet_id == tweets[idx]
           r == ProcessTweet(tweet_id, lookup, fault)
           sent == Made("send_tweet", r.calls)
           sendOk == Returned("send_tweet", r)
           added == Returned("collection.add", r)
           n == IF sent THEN nResponses + 1 ELSE nResponses
           stop == LoopEnds(r, n)
           raises == r.raised # NoExc /\ ~CheckMentionsCatches(r.raised)
           driverCatches ==
               CASE entry = "monitor_mentions" -> MonitorMentionsCatches(r.raised)
                 [] entry = "reply_guy" -> ReplyGuyCatches(r.raised)
                 [] OTHER -> FALSE
           saved == IF sendOk THEN CursorAfter("check_mentions", tweet_id)
                    ELSE [cursor |-> last_checked_tweet_id, file |-> cursor_file]
       IN /\ last_checked_tweet_id' = saved.cursor
          /\ cursor_file' = saved.file
          /\ calls' = r.calls
          /\ error' = r.raised
          /\ failedOpen' = r.caught
          /\ nResponses' = n
          /\ sendCalls' = IF sent THEN [sendCalls EXCEPT ![tweet_id] = @ + 1] ELSE sendCalls
          /\ posted' = IF sendOk THEN Append(posted, tweet_id) ELSE posted
          /\ recorded' = IF added THEN Append(recorded, tweet_id) ELSE recorded
          /\ tweet_responses' = IF added THEN log_response(tweet_id)
                                ELSE tweet_responses
          /\ lossy' = (lossy \/ r.caught \/ (sent /\ r.raised # NoExc))
          /\ clean' = (clean /\ r.raised = NoExc /\ ~r.caught)
          /\ pc' = IF stop THEN "idle" ELSE "loop"
          /\ idx' = IF stop THEN idx ELSE idx + 1
          /\ escaped' = escaped
                \cup (IF raises THEN {"check_mentions"} ELSE {})
                \cup (IF raises /\ entry # "check_mentions" /\ ~driverCatches
                      THEN {entry} ELSE {})
          /\ active' = IF ~stop THEN TRUE
                       ELSE IF raises THEN FALSE
                       ELSE entry = "monitor_mentions" /\ pending > 0
    /\ UNCHANGED <<platform, config, start_time, searches, noResults, tweets,
                   maxReplies, eligible, rerun, prevPosted, prevUncapped, cycles,
                   entry, pending>>

Next ==
    \/ \E answer \in SearchAnswers, limit \in RepliesArgs :
          CheckMentions(answer, limit)
    \/ \E lookup \in Lookups, fault \in Faults : Iteration(lookup, fault)

Spec == Init /\ [][Next]_vars

NextDrivers ==
    \/ \E answer \in SearchAnswers : CheckMentions(answer, DefaultMaxReplies)
    \/ MonitorMentions
    \/ \E answer \in SearchAnswers : MonitorNext(answer)
    \/ \E answer \in SearchAnswers : ReplyGuy(answer)
    \/ \E lookup \in Lookups, fault \in Faults : Iteration(lookup, fault)

SpecDrivers == InitDrivers /\ [][NextDrivers]_vars

\* The life of one handler: its construction, then any of its four methods,
\* on searches that find at most one tweet.
ShortAnswers == {answer \in SearchAnswers : Len(answer.found) <= 1}

NextLife ==
    \/ Construct
    \/ \E answer \in FollowerAnswers, fault \in FollowerFaults :
          TweetToFollowers(answer, fault)
    \/ \E answer \in ShortAnswers : CheckMentions(answer, DefaultMaxReplies)
    \/ MonitorMentions
    \/ \E answer \in ShortAnswers : MonitorNext(answer)
    \/ \E answer \in ShortAnswers : ReplyGuy(answer)
    \/ \E fault \in {NoFault, "send_tweet"} : Iteration(NoExc, fault)

SpecLife == InitLife /\ [][NextLife]_vars

\* A caller that keeps polling the same candidates: a handler with a Chroma
\* client, searches that succeed and find what the first one found, maxReplies
\* at least 1, and no collaborator ever raising.  MaxLen invocations are
\* enough to reply to MaxLen candidates; one more is run after them.
InitPolling == Init /\ config.chroma_client

Poll(answer, limit) ==
    /\ ~active
    /\ cycles <= MaxLen
    /\ ~answer.fails
    /\ limit >= 1
    /\ cycles > 0 => NewTweets(search_tweets(answer)) = tweets
    /\ check_mentions(SearchTerms[1], "", answer, limit)
    /\ entry' = "check_mentions"
    /\ active' = (pc' = "loop")
    /\ UNCHANGED pending

NextPolling ==
    \/ \E answer \in SearchAnswers, limit \in RepliesArgs : Poll(answer, limit)
    \/ Iteration(NoExc, NoFault)

\* The caller calls again whenever check_mentions has returned, and the loop
\* of a running invocation goes on.
SpecPolling ==
    /\ InitPolling
    /\ [][NextPolling]_vars
    /\ WF_vars(\E answer \in SearchAnswers, limit \in RepliesArgs : Poll(answer, limit))
    /\ WF_vars(Iteration(NoExc, NoFault))

\* ------------------------------------------------------------------ claims
Last(s) == s[Len(s)]

\* The latest iteration ended with `call` raising out of check_mentions' loop.
Raised(call) == error # NoExc /\ calls # <<>> /\ Last(calls) = call

C2_RepollSendsNothing == (rerun /\ clean /\ pc = "idle") => posted = <<>>

\* C2 amended: a second invocation on the same candidates, both without
\* collaborator failures, replies to no candidate the first one replied to,
\* and sends no reply at all when the first one sent fewer than its maxReplies.
C2_RepollSkipsAnswered ==
    (rerun /\ clean /\ pc = "idle") =>
        /\ Range(posted) \cap prevPosted = {}
        /\ prevUncapped => posted = <<>>

\* The second of two equal invocations found every candidate answered.
C2_Witness ==
    /\ rerun
    /\ clean
    /\ pc = "idle"
    /\ prevUncapped
    /\ prevPosted # {}
    /\ idx = Len(tweets)
    /\ posted = <<>>

\* C3 as stated: with at least maxReplies eligible candidates and no failure,
\* exactly maxReplies replies are sent (maxReplies 0 included) and the other
\* eligible candidates are neither posted to nor recorded.
C3_ExactlyMaxReplies ==
    (pc = "idle" /\ cycles > 0 /\ clean /\ maxReplies >= 0
        /\ Cardinality(eligible) >= maxReplies) =>
        /\ Len(posted) = maxReplies
        /\ Cardinality(eligible \ Range(posted)) = Cardinality(eligible) - maxReplies
        /\ Range(recorded) \subseteq Range(posted)

\* C4 as stated: in every invocation the candidates recorded are exactly the
\* candidates posted to.
C4_RecordIffPosted == Range(recorded) = Range(posted)

\* C4 amended: a record is written only for a candidate whose reply was posted
\* in the same invocation, and every posted candidate is recorded unless
\* updateUserContext or the store write raised for it, which ends the invocation.
C4_RecordOnlyIfPosted ==
    /\ Len(recorded) <= Len(posted)
    /\ recorded = SubSeq(posted, 1, Len(recorded))
    /\ recorded # posted =>
          /\ Len(posted) = Len(recorded) + 1
          /\ Last(posted) = tweets[idx]
          /\ pc = "idle"
          /\ Raised("updateUserContext") \/ Raised("collection.add")

\* A reply was posted and updateUserContext raised before the record write.
C4_Witness ==
    /\ Raised("updateUserContext")
    /\ posted # <<>>
    /\ Last(posted) = tweets[idx]
    /\ tweets[idx] \notin tweet_responses

\* C5 as stated: whenever the lookup of has_responded_to_tweet raises, the
\* method returns false and the candidate is processed.
C5_LookupFailsOpen ==
    (failedOpen \/ Raised("collection.get")) => (failedOpen /\ Len(calls) > 1)

\* C6: no exception propagates out of check_mentions, monitor_mentions or
\* reply_guy, whichever collaborator call raises.
C6_NoEscape == escaped = {}

\* send_tweet raised inside monitor_mentions, which went on to return.
C6_Witness ==
    /\ entry = "monitor_mentions"
    /\ Raised("send_tweet")
    /\ ~active

\* C7: when send_tweet raises, the invocation ends there (no later candidate
\* is processed), and that step writes no record and changes none.
C7_SendFailureAborts ==
    [][(pc = "loop" /\ error' # NoExc /\ Last(calls') = "send_tweet") =>
          /\ pc' = "idle"
          /\ tweet_responses' = tweet_responses
          /\ recorded' = recorded
          /\ posted' = posted]_vars

\* send_tweet raised at a candidate that was not the last one, with a record
\* of an earlier reply in the store.
C7_Witness ==
    /\ Raised("send_tweet")
    /\ pc = "idle"
    /\ idx < Len(tweets)
    /\ tweet_responses # {}

\* C8 as stated: the replies of one invocation are posted in strictly
\* ascending order of id.
C8_StrictlyAscending ==
    \A j, k \in 1..Len(posted) : j < k => IntId(posted[j]) < IntId(posted[k])

\* C8 amended: each reply of an invocation goes to an id greater than that of
\* the reply before it, or to the same id when the search returned the post
\* more than once and the dedup lookup of the repeat failed open.
C8_AscendingUnlessFailedOpen ==
    [][(Len(posted') > Len(posted) /\ posted # <<>>) =>
          \/ IntId(Last(posted')) > IntId(Last(posted))
          \/ (Last(posted') = Last(posted) /\ failedOpen')]_vars

\* Two replies were posted in one invocation, to ascending ids.
C8_Witness == Len(posted) = 2 /\ IntId(posted[1]) < IntId(posted[2])

\* C9: no candidate whose id is at most the cursor (null as 0) is ever replied
\* to or recorded.
C9_CursorExcludes ==
    \A t \in Ids :
        IntId(t) <= (IF last_checked_tweet_id = None THEN 0 ELSE last_checked_tweet_id[1])
            => sendCalls[t] = 0 /\ t \notin Range(recorded) /\ t \notin Range(posted)

\* With a cursor set, an invocation replied to a post above it.
C9_Witness ==
    /\ last_checked_tweet_id # None
    /\ posted # <<>>
    /\ IntId(posted[1]) > last_checked_tweet_id[1]

\* C10: no candidate created before start_time is ever replied to.
C10_SessionWindow ==
    \A t \in Ids : platform[t].created_at < start_time => sendCalls[t] = 0

\* An invocation met a post created before start_time, written by someone
\* else, and skipped it without any collaborator call.
C10_Witness ==
    /\ pc = "idle"
    /\ cycles > 0
    /\ tweets # <<>>
    /\ platform[tweets[idx]].created_at < start_time
    /\ platform[tweets[idx]].username # OwnName
    /\ config.chroma_client
    /\ calls = <<>>
    /\ sendCalls[tweets[idx]] = 0

\* C11: no candidate written by the engine's own account (client.username) is
\* ever replied to or recorded.
C11_OwnTweetsSkipped ==
    \A t \in Ids :
        platform[t].username = OwnName =>
            sendCalls[t] = 0 /\ t \notin Range(posted) /\ t \notin Range(recorded)

\* An invocation met a recent post of the own account, with no record of it,
\* and skipped it without any collaborator call.
C11_Witness ==
    /\ pc = "idle"
    /\ cycles > 0
    /\ tweets # <<>>
    /\ platform[tweets[idx]].username = OwnName
    /\ platform[tweets[idx]].created_at >= start_time
    /\ config.chroma_client
    /\ tweets[idx] \notin tweet_responses
    /\ calls = <<>>
    /\ sendCalls[tweets[idx]] = 0

\* C12 as stated: a record for an id is written only when no record for that id
\* exists at the time its reply is sent.
C12_WriteOnlyWhenAbsent ==
    [][Len(recorded') > Len(recorded) => tweets[idx] \notin tweet_responses]_vars

\* C12 amended: the collection is keyed by post id, and a record for an id is
\* written only when no record for that id exists at the time its reply is
\* sent, or when the dedup lookup for that id failed open.
C12_WriteOnlyWhenAbsentOrFailedOpen ==
    [][Len(recorded') > Len(recorded) =>
          (tweets[idx] \notin tweet_responses \/ failedOpen')]_vars

\* One invocation wrote the record of the same id twice, the second time after
\* a lookup that failed open.
C12_Witness ==
    /\ Len(recorded) = 2
    /\ recorded[1] = recorded[2]
    /\ recorded[1] \in tweet_responses
    /\ failedOpen
    /\ Made("collection.add", calls)

\* C13 as stated: after any invocation, last_checked_tweet_id is at least the
\* id of every post the invocation has replied to.
C13_CursorCoversReplies ==
    pc = "idle" => \A t \in Range(posted) : CursorOrZero >= IntId(t)

\* C14: once the handler is constructed, check_mentions, monitor_mentions,
\* reply_guy and tweet_to_followers all leave last_checked_tweet_id and the
\* cursor file as they are.
C14_CursorFrozen ==
    [][pc # "new" => /\ last_checked_tweet_id' = last_checked_tweet_id
                     /\ cursor_file' = cursor_file]_vars

\* A handler loaded cursor 1, replied to a post above it, then tweeted to a
\* follower: the cursor and its file are what they were.
C14_Witness ==
    /\ entry = "tweet_to_followers"
    /\ Made("send_tweet", calls)
    /\ error = NoExc
    /\ posted # <<>>
    /\ cursor_file = ObjectFile(Some(1))
    /\ last_checked_tweet_id = Some(1)

\* C15: when the search fails or finds nothing, check_mentions makes no dedup
\* lookup, no generator call, no post and no record write, and returns normally.
C15_EmptySearchDoesNothing ==
    (noResults /\ cycles > 0) =>
        /\ pc = "idle"
        /\ tweets = <<>>
        /\ calls = <<>>
        /\ nResponses = 0
        /\ posted = <<>>
        /\ recorded = <<>>
        /\ error = NoExc
        /\ "check_mentions" \notin escaped

\* The second invocation's search failed or found nothing after the first one
\* had replied.
C15_Witness ==
    /\ noResults
    /\ cycles = 2
    /\ prevPosted # {}
    /\ pc = "idle"
    /\ calls = <<>>

\* C16: reply_guy without reply targets makes no search call and no post and
\* returns; with reply targets it runs one check_mentions invocation, whose
\* search term is "from:" followed by the searchTerm of one configured target
\* and whose context is the searchContext of that same target.
C16_ReplyGuyOneCycle ==
    /\ [](entry = "reply_guy" =>
            IF config.reply_targets = <<>>
            THEN searches = <<>> /\ ~active /\ pc = "idle"
            ELSE /\ Len(searches) = 1
                 /\ \E k \in 1..Len(config.reply_targets) :
                       /\ searches[1].term
                              = "from:" \o config.reply_targets[k].searchTerm
                       /\ searches[1].context
                              = config.reply_targets[k].searchContext)
    /\ [][(entry' = "reply_guy" /\ config.reply_targets = <<>>) =>
              /\ sendCalls' = sendCalls
              /\ tweet_responses' = tweet_responses
              /\ cycles' = cycles]_vars

\* reply_guy chose the second of two targets and replied to a post of theirs.
C16_Witness ==
    /\ entry = "reply_guy"
    /\ ~active
    /\ Len(config.reply_targets) = 2
    /\ searches = <<[term |-> "from:bob", context |-> "rival"]>>
    /\ posted # <<>>

\* C17: monitor_mentions runs one check_mentions invocation per configured
\* search term, in list order, each one returning before the next one starts,
\* also when the invocation of an earlier term fails inside its loop.
C17_OneCyclePerTerm ==
    /\ [](entry = "monitor_mentions" =>
            /\ pending \in 0..Len(config.search_terms)
            /\ searches = [k \in 1..(Len(config.search_terms) - pending) |->
                              [term |-> config.search_terms[k], context |-> ""]]
            /\ ~active => pending = 0)
    /\ [][Len(searches') > Len(searches) => pc = "idle"]_vars

\* monitor_mentions returned after both terms, the invocation of the first one
\* having failed in its loop and the second one not.
C17_Witness ==
    /\ entry = "monitor_mentions"
    /\ ~active
    /\ Len(searches) = 2
    /\ cycles = 2
    /\ lossy
    /\ clean
    /\ tweet_responses = {}

\* C18: tweet_to_followers lets every failure reach its caller: when
\* get_followers, the choice from an empty list, a context call, the generator
\* or send_tweet raises, updateUserContext is not called; when nothing raises
\* it posts once, not as a reply, and it never reads or writes the dedup records.
C18_FollowerTweetPropagates ==
    [][entry' = "tweet_to_followers" =>
          /\ sendCalls' = sendCalls
          /\ tweet_responses' = tweet_responses
          /\ ~Made("collection.get", calls')
          /\ ~Made("collection.add", calls')
          /\ error' # NoExc =>
                /\ "tweet_to_followers" \in escaped'
                /\ calls'[Len(calls')] # "updateUserContext" =>
                      ~Made("updateUserContext", calls')
          /\ error' = NoExc =>
                /\ escaped' = escaped
                /\ Cardinality({k \in 1..Len(calls') : calls'[k] = "send_tweet"}) = 1]_vars

\* send_tweet raised in tweet_to_followers and the exception reached the caller.
C18_Witness ==
    /\ entry = "tweet_to_followers"
    /\ error # NoExc
    /\ Last(calls) = "send_tweet"
    /\ "tweet_to_followers" \in escaped

\* C19 as stated: construction never fails because of the cursor file; a file
\* holding an object gives its last_checked_tweet_id, anything else gives None.
C19_LoadNeverFails ==
    pc # "new" =>
        /\ pc # "failed"
        /\ last_checked_tweet_id
               = IF cursor_file.kind = "object" THEN cursor_file.value ELSE None

\* The positions of the calls `first` and `second` in cs are in that order.
Before(first, second, cs) ==
    \A j, k \in 1..Len(cs) : (cs[j] = first /\ cs[k] = second) => j < k

\* The calls cs appear in the order of the list `order`.
InOrder(cs, order) ==
    \A j, k \in 1..Len(order) : j < k => Before(order[j], order[k], cs)

\* update-user-context and the record write happen only after send_tweet.
AfterPost(cs) ==
    \A k \in 1..Len(cs) :
        cs[k] \in {"updateUserContext", "collection.add"} =>
            \E j \in 1..(k - 1) : cs[j] = "send_tweet"

\* C20 as stated: for every processed candidate the calls are made in the order
\* fetchContext, getUserContext, response_generator, send_tweet,
\* updateUserContext, collection.add, the last two only after the post.
C20_FetchThenUserContext ==
    /\ InOrder(calls, <<"fetchContext", "getUserContext", "response_generator",
                        "send_tweet", "updateUserContext", "collection.add">>)
    /\ AfterPost(calls)

\* C20 amended: for every processed candidate the calls are made in the order
\* getUserContext, fetchContext, response_generator, send_tweet,
\* updateUserContext, collection.add, the last two only after the post.
C20_UserContextThenFetch ==
    /\ InOrder(calls, <<"getUserContext", "fetchContext", "response_generator",
                        "send_tweet", "updateUserContext", "collection.add">>)
    /\ AfterPost(calls)

\* A candidate went through the whole pipeline with every collaborator.
C20_Witness ==
    /\ calls = <<"collection.get", "getUserContext", "fetchContext",
                 "response_generator", "send_tweet", "updateUserContext",
                 "collection.add">>
    /\ error = NoExc
    /\ posted # <<>>

\* The candidates of the latest search that pass the cursor, the session
\* window and the own-account test.
EligibleCandidates ==
    {t \in Range(tweets) : IsNew(t) /\ ~BeforeSession(t) /\ ~IsOwnTweet(t)}

\* Every eligible candidate has been replied to: its record is in the store.
AllReplied == EligibleCandidates \subseteq tweet_responses

\* C21: polling a fixed candidate set with a working store, working
\* collaborators and maxReplies >= 1 eventually leaves every eligible candidate
\* replied to, and from then on no invocation posts anything.
C21_EventuallyAllReplied ==
    /\ <>[](cycles > 0 /\ pc = "idle" /\ AllReplied /\ posted = <<>>)
    /\ [][(cycles > 0 /\ AllReplied) => sendCalls' = sendCalls]_vars

\* Two candidates were replied to by two invocations capped at one reply, and
\* a third invocation on them posted nothing.
C21_Witness ==
    /\ cycles = 3
    /\ pc = "idle"
    /\ tweets = <<1, 2>>
    /\ sendCalls = [t \in Ids |-> 1]
    /\ AllReplied
    /\ posted = <<>>
    /\ maxReplies = 1

\* C22: a handler constructed without a Chroma client never posts a reply: the
\* lookup for the first candidate that passes the cursor, the session window
\* and the own-account test raises AttributeError, which has_responded_to_tweet
\* does not catch, and check_mentions' except clause ends the invocation.
C22_NoStoreNeverPosts ==
    ~config.chroma_client =>
        /\ \A t \in Ids : sendCalls[t] = 0
        /\ posted = <<>>
        /\ recorded = <<>>
        /\ "check_mentions" \notin escaped
        /\ calls # <<>> =>
              /\ calls = <<"get_or_create_collection">>
              /\ error = "AttributeError"
              /\ ~failedOpen
              /\ pc = "idle"

\* Without a Chroma client, the lookup for the first of two candidates raised
\* and the invocation ended before the second one.
C22_Witness ==
    /\ ~config.chroma_client
    /\ pc = "idle"
    /\ Len(tweets) = 2
    /\ idx = 1
    /\ ~BeforeSession(tweets[1])
    /\ ~IsOwnTweet(tweets[1])
    /\ calls = <<"get_or_create_collection">>
    /\ error = "AttributeError"
    /\ \A t \in Ids : sendCalls[t] = 0

\* max(1, maxReplies)
AtLeastOne(n) == IF n >= 1 THEN n ELSE 1

\* C23: for every integer maxReplies, zero and negatives included, one
\* check_mentions invocation calls send_tweet at most max(1, maxReplies) times;
\* candidates skipped by the filters do not count.
C23_AtMostMaxOrOne ==
    cycles > 0 =>
        /\ nResponses <= AtLeastOne(maxReplies)
        /\ Len(posted) <= nResponses

\* An invocation with a negative maxReplies skipped its first candidate and
\* sent one reply, to the second.
C23_Witness ==
    /\ maxReplies < 0
    /\ pc = "idle"
    /\ Len(tweets) = 2
    /\ idx = 2
    /\ nResponses = 1
    /\ posted = <<tweets[2]>>
    /\ sendCalls[tweets[1]] = 0

====
